---- MODULE Spec2Model ----
(***************************************************************************)
(* Model of the team dashboard of src/app.py: the Entity Store (projects,  *)
(* tasks, team members, project-member links), the Graph Model (nodes and  *)
(* connections) and the Mindmap Synchronizer sync_mindmap_internal, with   *)
(* the HTTP handlers that mutate them.  Tables are modelled as their rows: *)
(* projects and tasks as sequences in rowid (insertion) order, which is    *)
(* the order Query.all() enumerates them in; the other tables as sets of   *)
(* rows carrying their primary key.                                        *)
(***************************************************************************)
EXTENDS Integers, Sequences, FiniteSets, TLC

(* ------------------------------ bounds --------------------------------- *)

\* number of project ids, member ids and task ids requests may name
NumProjects == 2
NumMembers == 2
NumTasks == 2
\* number of rows the generic node endpoint may add on top of a synced graph
MaxStandalone == 1
\* largest rowid the node and connection endpoints may hand out
MaxRowId == 4
\* longest team list and assignment list of an advisor proposal
MaxTeam == 2
\* largest rowid a project-member insert may hand out
MaxLinkId == 3
MaxAssignments == 1
\* request threads the server runs at a time
NumSessions == 2
\* tech-stack generation threads that may run at a time
MaxThreads == 2

ProjectNames == <<"p1", "p2", "p3">>
MemberNames == <<"m1", "m2", "m3", "m4">>
TaskNames == <<"t1", "t2", "t3">>

ProjectIds == {ProjectNames[i] : i \in 1..NumProjects}
MemberIds == {MemberNames[i] : i \in 1..NumMembers}
TaskIds == {TaskNames[i] : i \in 1..NumTasks}

\* Python None / SQL NULL
None == "None"

\* Python truthiness of an optional string (None and "" are falsy)
Truthy(v) == v # None /\ v # ""

(* ------------------------------ state ---------------------------------- *)

VARIABLES
  projects,         \* Seq of Project rows, rowid order
  tasks,            \* Seq of Task rows, rowid order
  team_members,     \* set of TeamMember rows
  project_members,  \* set of ProjectMember rows
  nodes,            \* set of Node rows
  connections,      \* set of Connection rows
  resp,             \* response of the last completed request
  syncStreak,       \* Synchronizer passes since the last other request (capped at 2)
  removed,          \* rows the bulk statements of the last request matched
  sess,             \* per request thread: its position and its open transaction
  dbLock,           \* the thread holding the database's write lock, 0 when free
  use_ai,           \* whether a text-generation provider answers (USE_CLAUDE, USE_GEMINI)
  gen,              \* per slot: the running tech-stack generation thread, or NoRow
  task_data         \* the task list the advisor last put into its prompt

vars == <<projects, tasks, team_members, project_members, nodes, connections,
          resp, syncStreak, removed, sess, dbLock, use_ai, gen, task_data>>

entityVars == <<projects, tasks, team_members, project_members>>
graphVars == <<nodes, connections>>

(* ------------------------------ helpers -------------------------------- *)

\* dict.get(k, default) on a request body (a function from keys to values)
Get(data, k, default) == IF k \in DOMAIN data THEN data[k] ELSE default

Has(data, k) == k \in DOMAIN data

Range(s) == {s[i] : i \in DOMAIN s}

\* what Model.query.get(id) returns when no row has the id (Python None)
NoRow == [id |-> None]

\* Model.query.get(id) on a table held as a sequence: the row or None
SeqGet(table, id) ==
  IF \E i \in DOMAIN table : table[i].id = id
  THEN table[CHOOSE i \in DOMAIN table : table[i].id = id]
  ELSE NoRow

\* Model.query.get(id) on a table held as a set of rows
SetGet(table, id) ==
  IF \E r \in table : r.id = id THEN CHOOSE r \in table : r.id = id ELSE NoRow

\* the row with the given id replaced, position kept
SeqPut(table, row) ==
  [i \in DOMAIN table |-> IF table[i].id = row.id THEN row ELSE table[i]]

\* SQLite rowid of a row inserted without an explicit INTEGER PRIMARY KEY
NextRowId(table) ==
  IF table = {} THEN 1
  ELSE 1 + (CHOOSE m \in {r.id : r \in table} : \A r \in table : r.id <= m)

Response(status, body) == [status |-> status, body |-> body]

\* app.py:716  row.attr = data.get(key, row.attr) in the update branch of an upsert
Defaulted(data, key, current) == Get(data, key, None)
Merged(data, key, current) == Get(data, key, current)

(* --------------------------- Synchronizer ------------------------------ *)

\* app.py:946  node_id_counter = 0
NodeIdCounterInitFromNodes == Cardinality(nodes)
NodeIdCounterInit == 0

\* app.py:943-947  the pass starts from an empty graph
SyncClear == [nodes |-> {}, conns |-> {}, counter |-> NodeIdCounterInit]

AddConnection(conns, from, to) ==
  conns \cup {[id |-> NextRowId(conns), from_node |-> from, to_node |-> to]}

\* app.py:1031  task.title[:40] followed by '...' when longer
TitleLimit == 40
TaskNodeText(title) ==
  IF Len(title) > TitleLimit THEN SubSeq(title, 1, TitleLimit) \o "..." ELSE title

\* app.py:956-968  one level-0 node per project, in enumeration order
ProjectNodeStacked(id, idx, project) ==
  [id |-> id, x |-> 150, y |-> 250, text |-> project.name,
   level |-> 0, entity_type |-> "project", entity_id |-> project.id]
ProjectNode(id, idx, project) ==
  [id |-> id, x |-> 150, y |-> 250 + (idx * 450), text |-> project.name,
   level |-> 0, entity_type |-> "project", entity_id |-> project.id]

EmitProjectNodes(st, P) ==
  [st EXCEPT
     !.nodes = st.nodes \cup
               {ProjectNode(st.counter + i - 1, i - 1, P[i]) : i \in DOMAIN P},
     !.counter = st.counter + Len(P)]

\* node_map[f"project_{project.id}"]: the id given to the project's node
ProjectNodeId(base, P, i) == base + i - 1

\* sorted(assigned_member_ids): ascending string order of the member ids
SortedIds(S) == SelectSeq(MemberNames, LAMBDA m : m \in S)

\* app.py:1026-1040  the task nodes of one member
RECURSIVE EmitTaskNodes(_, _, _, _, _)
EmitTaskNodes(st, member_tasks, task_idx, member_node_id, member_y) ==
  IF task_idx >= Len(member_tasks) THEN st
  ELSE
    LET task == member_tasks[task_idx + 1]
        task_node == [id |-> st.counter, x |-> 1350,
                      y |-> member_y + (task_idx * 60) - 20,
                      text |-> TaskNodeText(task.title), level |-> 3,
                      entity_type |-> "task", entity_id |-> task.id]
    IN EmitTaskNodes(
         [nodes |-> st.nodes \cup {task_node},
          conns |-> AddConnection(st.conns, member_node_id, st.counter),
          counter |-> st.counter + 1],
         member_tasks, task_idx + 1, member_node_id, member_y)

\* app.py:1003-1004  if not member: continue, before the counter is touched
SkipMemberTakesId(st) == [st EXCEPT !.counter = @ + 1]
SkipMember(st) == st

\* app.py:1001-1040  the member nodes of one project, each with its tasks
RECURSIVE EmitMemberNodes(_, _, _, _, _, _, _)
EmitMemberNodes(st, ids, member_idx, team_node_id, member_y_start, ptasks, M) ==
  IF member_idx >= Len(ids) THEN st
  ELSE
    LET member_id == ids[member_idx + 1]
        member == SetGet(M, member_id)
        member_tasks == SelectSeq(ptasks, LAMBDA t : t.assigned_to = member_id)
        member_y == member_y_start + (member_idx * 90)
        member_node == [id |-> st.counter, x |-> 950, y |-> member_y,
                        text |-> member.name \o " - " \o member.role, level |-> 2,
                        entity_type |-> "member", entity_id |-> member.id]
        st1 == [nodes |-> st.nodes \cup {member_node},
                conns |-> AddConnection(st.conns, team_node_id, st.counter),
                counter |-> st.counter + 1]
    IN IF member = NoRow
       THEN EmitMemberNodes(SkipMember(st), ids, member_idx + 1, team_node_id,
                            member_y_start, ptasks, M)
       ELSE EmitMemberNodes(
              EmitTaskNodes(st1, member_tasks, 0, st.counter, member_y),
              ids, member_idx + 1, team_node_id, member_y_start, ptasks, M)

\* app.py:979-980  if not assigned_member_ids: continue
NeverSkipsProject(assigned_member_ids) == FALSE
SkipsProject(assigned_member_ids) == assigned_member_ids = {}

\* app.py:971-1040  one iteration of the second loop over the projects
EmitProjectSubtree(st, base, i, P, T, M) ==
  LET idx == i - 1
      project == P[i]
      project_node_id == ProjectNodeId(base, P, i)
      ptasks == SelectSeq(T, LAMBDA t : t.project_id = project.id)
      assigned_member_ids ==
        {ptasks[k].assigned_to : k \in {j \in DOMAIN ptasks : Truthy(ptasks[j].assigned_to)}}
      team_node_id == st.counter
      team_node == [id |-> team_node_id, x |-> 550, y |-> 250 + (idx * 450),
                    text |-> "Team Members", level |-> 1,
                    entity_type |-> "team", entity_id |-> project.id]
      st1 == [nodes |-> st.nodes \cup {team_node},
              conns |-> AddConnection(st.conns, project_node_id, team_node_id),
              counter |-> st.counter + 1]
  IN IF SkipsProject(assigned_member_ids) THEN st
     ELSE EmitMemberNodes(st1, SortedIds(assigned_member_ids), 0, team_node_id,
                          150 + (idx * 450), ptasks, M)

RECURSIVE EmitSubtreesFrom(_, _, _, _, _, _)
EmitSubtreesFrom(st, base, i, P, T, M) ==
  IF i > Len(P) THEN st
  ELSE EmitSubtreesFrom(EmitProjectSubtree(st, base, i, P, T, M), base, i + 1, P, T, M)

\* app.py:939-1042  the graph a complete pass commits for the store (P, T, M)
SyncPass(P, T, M) ==
  LET st0 == SyncClear
  IN IF P = <<>> THEN st0
     ELSE EmitSubtreesFrom(EmitProjectNodes(st0, P), st0.counter, 1, P, T, M)

(* ------------------------------ Init ----------------------------------- *)

Sessions == 1..NumSessions

\* a thread between requests; log is what its last pass printed
Idle(log) == [pc |-> "idle", log |-> log]

\* Query.delete() and Query.update() matched no row
NoneRemoved == [tasks |-> 0, links |-> 0, nulled |-> 0]

\* a request handled with no other thread running
Sequential == UNCHANGED <<sess, dbLock, use_ai, task_data>>

Slots == 1..MaxThreads
FreeSlots == {k \in Slots : gen[k] = NoRow}

\* app.py:774-793  thread.start(): the thread the handler's result asks for
\* runs in the lowest free slot; without a provider it returns without a write
Spawn(r) ==
  IF use_ai /\ Has(r, "spawn") /\ FreeSlots # {}
  THEN [gen EXCEPT ![CHOOSE k \in FreeSlots : \A j \in FreeSlots : k <= j] = r.spawn]
  ELSE gen

Init ==
  /\ projects = <<>>
  /\ tasks = <<>>
  /\ team_members = {}
  /\ project_members = {}
  /\ nodes = {}
  /\ connections = {}
  /\ resp = Response(0, "none")
  /\ syncStreak = 0
  /\ removed = NoneRemoved
  /\ sess = [s \in Sessions |-> Idle("")]
  /\ dbLock = 0
  /\ use_ai = FALSE
  /\ gen = [k \in Slots |-> NoRow]
  /\ task_data = <<>>

(* ------------------------- handler plumbing ---------------------------- *)

\* the Entity Store as the handlers read it
Store ==
  [projects |-> projects, tasks |-> tasks, team_members |-> team_members,
   project_members |-> project_members]

\* what a handler does up to its own db.session.commit(): the store it commits,
\* its response, and whether it goes on to call sync_mindmap_internal()
Result(store, response, sync) == [store |-> store, resp |-> response, sync |-> sync]

\* sync_mindmap_internal() run to completion: the graph is replaced by the
\* result of the pass over the store
SyncGraph(P, T, M) ==
  LET g == SyncPass(P, T, M)
  IN /\ nodes' = g.nodes
     /\ connections' = g.conns

\* db.session.commit() of the handler's changes, and its response
Commit(r) ==
  /\ projects' = r.store.projects
  /\ tasks' = r.store.tasks
  /\ team_members' = r.store.team_members
  /\ project_members' = r.store.project_members
  /\ resp' = r.resp
  /\ removed' = Get(r, "removed", NoneRemoved)
  /\ gen' = Spawn(r)
  /\ Sequential

\* the call of sync_mindmap_internal() that follows the commit, when the
\* handler makes one, with no other request in between
ThenSync(r) ==
  IF r.sync
  THEN /\ SyncGraph(r.store.projects, r.store.tasks, r.store.team_members)
       /\ syncStreak' = 1
  ELSE /\ UNCHANGED graphVars
       /\ syncStreak' = 0

(* ------------------------- team members -------------------------------- *)

\* app.py:524-545
create_or_update_team_member_result(data) ==
  LET member == SetGet(team_members, data.id)
      updated == [id |-> member.id,
                  name |-> Merged(data, "name", member.name),
                  role |-> Merged(data, "role", member.role),
                  avatar |-> Merged(data, "avatar", member.avatar),
                  avatar_color |-> Merged(data, "avatarColor", member.avatar_color)]
      created == [id |-> data.id, name |-> data.name, role |-> data.role,
                  avatar |-> data.avatar, avatar_color |-> data.avatarColor]
  IN IF member # NoRow
     THEN Result([Store EXCEPT !.team_members = (team_members \ {member}) \cup {updated}],
                 Response(200, "data"), FALSE)
     ELSE IF {"name", "role", "avatar", "avatarColor"} \subseteq DOMAIN data
     THEN Result([Store EXCEPT !.team_members = team_members \cup {created}],
                 Response(200, "data"), FALSE)
     ELSE Result(Store, Response(500, "error"), FALSE)

create_or_update_team_member(data) ==
  /\ Commit(create_or_update_team_member_result(data))
  /\ ThenSync(create_or_update_team_member_result(data))

\* app.py:557  Task.query.filter_by(assigned_to=member_id).update({"assigned_to": None})
KeepAssignments(T, member_id) == T
NullAssignments(T, member_id) ==
  [i \in DOMAIN T |-> IF T[i].assigned_to = member_id
                      THEN [T[i] EXCEPT !.assigned_to = None]
                      ELSE T[i]]

\* app.py:549-566
delete_team_member_result(member_id) ==
  LET member == SetGet(team_members, member_id)
      kept_links == {pm \in project_members : pm.member_id # member_id}
  IN IF member = NoRow
     THEN Result(Store, Response(404, "error"), FALSE)
     ELSE [store |-> [Store EXCEPT
                        !.tasks = NullAssignments(tasks, member_id),
                        !.project_members = kept_links,
                        !.team_members = team_members \ {member}],
           resp |-> Response(200, "success"),
           sync |-> FALSE,
           removed |-> [tasks |-> 0,
                        links |-> Cardinality(project_members \ kept_links),
                        nulled |-> Cardinality({i \in DOMAIN tasks :
                                                 tasks[i].assigned_to = member_id})]]

delete_team_member(member_id) ==
  /\ Commit(delete_team_member_result(member_id))
  /\ ThenSync(delete_team_member_result(member_id))

(* ----------------------------- projects -------------------------------- *)

\* app.py:659-682
create_or_update_project_result(data) ==
  LET project == SeqGet(projects, data.id)
      updated == [id |-> project.id,
                  name |-> Merged(data, "name", project.name),
                  tag_color |-> Merged(data, "tagColor", project.tag_color),
                  description |-> Merged(data, "description", project.description)]
      created == [id |-> data.id, name |-> data.name,
                  tag_color |-> Get(data, "tagColor", "blue"),
                  description |-> Get(data, "description", "")]
  IN IF project # NoRow
     THEN Result([Store EXCEPT !.projects = SeqPut(projects, updated)],
                 Response(200, "data"), TRUE)
     ELSE IF Has(data, "name")
     THEN Result([Store EXCEPT !.projects = Append(projects, created)],
                 Response(200, "data"), TRUE)
     ELSE Result(Store, Response(500, "error"), FALSE)

create_or_update_project(data) ==
  /\ Commit(create_or_update_project_result(data))
  /\ ThenSync(create_or_update_project_result(data))

\* app.py:694  Task.query.filter_by(project_id=project_id).delete()
KeepProjectTasks(T, project_id) == T
DeleteProjectTasks(T, project_id) == SelectSeq(T, LAMBDA t : t.project_id # project_id)

\* app.py:686-706
delete_project_result(project_id) ==
  LET project == SeqGet(projects, project_id)
      kept_tasks == DeleteProjectTasks(tasks, project_id)
      kept_links == {pm \in project_members : pm.project_id # project_id}
  IN IF project = NoRow
     THEN Result(Store, Response(404, "error"), FALSE)
     ELSE [store |-> [Store EXCEPT
                        !.tasks = kept_tasks,
                        !.project_members = kept_links,
                        !.projects = SelectSeq(projects, LAMBDA p : p.id # project_id)],
           resp |-> Response(200, "success"),
           sync |-> TRUE,
           removed |-> [tasks |-> Len(tasks) - Len(kept_tasks),
                        links |-> Cardinality(project_members \ kept_links),
                        nulled |-> 0]]

delete_project(project_id) ==
  /\ Commit(delete_project_result(project_id))
  /\ ThenSync(delete_project_result(project_id))

(* ------------------------------- tasks --------------------------------- *)

\* app.py:710-738
create_or_update_task_result(data) ==
  LET task == SeqGet(tasks, data.id)
      updated == [id |-> task.id,
                  title |-> Merged(data, "title", task.title),
                  priority |-> Merged(data, "priority", task.priority),
                  deadline |-> Merged(data, "deadline", task.deadline),
                  project_id |-> Merged(data, "projectId", task.project_id),
                  assigned_to |-> Merged(data, "assignedTo", task.assigned_to),
                  tech_stack |-> task.tech_stack]
      created == [id |-> data.id, title |-> data.title,
                  priority |-> Get(data, "priority", "medium"),
                  deadline |-> data.deadline,
                  project_id |-> data.projectId,
                  assigned_to |-> Get(data, "assignedTo", None),
                  tech_stack |-> None]
  IN IF task # NoRow
     THEN Result([Store EXCEPT !.tasks = SeqPut(tasks, updated)],
                 Response(200, "data"), TRUE)
     ELSE IF {"title", "deadline", "projectId"} \subseteq DOMAIN data
     THEN Result([Store EXCEPT !.tasks = Append(tasks, created)],
                 Response(200, "data"), TRUE)
     ELSE Result(Store, Response(500, "error"), FALSE)

create_or_update_task(data) ==
  /\ Commit(create_or_update_task_result(data))
  /\ ThenSync(create_or_update_task_result(data))

\* app.py:742-754
delete_task_result(task_id) ==
  LET task == SeqGet(tasks, task_id)
  IN IF task = NoRow
     THEN Result(Store, Response(404, "error"), FALSE)
     ELSE Result([Store EXCEPT !.tasks = SelectSeq(tasks, LAMBDA t : t.id # task_id)],
                 Response(200, "success"), TRUE)

delete_task(task_id) ==
  /\ Commit(delete_task_result(task_id))
  /\ ThenSync(delete_task_result(task_id))

\* app.py:758-798
assign_task_result(task_id, data) ==
  LET task == SeqGet(tasks, task_id)
      new_assignee == Get(data, "assignedTo", None)
  IN IF task = NoRow
     THEN Result(Store, Response(404, "error"), FALSE)
     ELSE IF Truthy(new_assignee) /\ ~Truthy(task.assigned_to)
     THEN [store |-> [Store EXCEPT
                        !.tasks = SeqPut(tasks, [task EXCEPT !.assigned_to = new_assignee])],
           resp |-> Response(200, "data"),
           sync |-> TRUE,
           spawn |-> [task_id |-> task_id, project_id |-> task.project_id,
                      task_title |-> task.title, priority |-> task.priority,
                      deadline |-> task.deadline, assignee_id |-> new_assignee,
                      pc |-> "start"]]
     ELSE Result([Store EXCEPT
                    !.tasks = SeqPut(tasks, [task EXCEPT !.assigned_to = new_assignee])],
                 Response(200, "data"), TRUE)

assign_task(task_id, data) ==
  /\ Commit(assign_task_result(task_id, data))
  /\ ThenSync(assign_task_result(task_id, data))

(* --------------------------- sync endpoint ----------------------------- *)

\* app.py:1054  the endpoint's answer once sync_mindmap_internal() has returned
sync_mindmap_result == Result(Store, Response(200, "Mindmap synced from team data"), TRUE)

\* app.py:1050-1056
sync_mindmap ==
  /\ SyncGraph(projects, tasks, team_members)
  /\ syncStreak' = IF syncStreak >= 1 THEN 2 ELSE 1
  /\ resp' = sync_mindmap_result.resp
  /\ removed' = NoneRemoved
  /\ UNCHANGED <<entityVars, gen>>
  /\ Sequential

(* ------------------------- project members ----------------------------- *)

\* app.py:605-607, 1911-1913  ProjectMember.query.filter_by(project_id, member_id)
NoExistingProjectMember(pms, project_id, member_id) == {}
ExistingProjectMember(pms, project_id, member_id) ==
  {pm \in pms : pm.project_id = project_id /\ pm.member_id = member_id}

\* app.py:199-202  UniqueConstraint("project_id", "member_id"): the insert is refused
ViolatesUnique(pms, project_id, member_id) ==
  \E pm \in pms : pm.project_id = project_id /\ pm.member_id = member_id

\* app.py:615-616  db.session.add(ProjectMember(project_id, member_id))
InsertProjectMember(pms, project_id, member_id) ==
  pms \cup {[id |-> NextRowId(pms), project_id |-> project_id, member_id |-> member_id]}

\* app.py:587-619
assign_member_to_project_result(project_id, data) ==
  LET member_id == Get(data, "memberId", None)
      project == SeqGet(projects, project_id)
      member == SetGet(team_members, member_id)
      existing == ExistingProjectMember(project_members, project_id, member_id)
  IN IF ~Truthy(member_id) THEN Result(Store, Response(400, "memberId is required"), FALSE)
     ELSE IF project = NoRow THEN Result(Store, Response(404, "Project not found"), FALSE)
     ELSE IF member = NoRow THEN Result(Store, Response(404, "Member not found"), FALSE)
     ELSE IF existing # {} THEN Result(Store, Response(200, "Member already assigned"), FALSE)
     ELSE IF ViolatesUnique(project_members, project_id, member_id)
     THEN Result(Store, Response(500, "IntegrityError"), FALSE)
     ELSE Result([Store EXCEPT !.project_members =
                    InsertProjectMember(project_members, project_id, member_id)],
                 Response(200, "success"), FALSE)

assign_member_to_project(project_id, data) ==
  /\ Commit(assign_member_to_project_result(project_id, data))
  /\ ThenSync(assign_member_to_project_result(project_id, data))

\* app.py:623-637
remove_member_from_project_result(project_id, member_id) ==
  LET matching == {pm \in project_members :
                     pm.project_id = project_id /\ pm.member_id = member_id}
  IN IF matching = {}
     THEN Result(Store, Response(404, "Assignment not found"), FALSE)
     ELSE Result([Store EXCEPT !.project_members = project_members \ matching],
                 Response(200, "success"), FALSE)

remove_member_from_project(project_id, member_id) ==
  /\ Commit(remove_member_from_project_result(project_id, member_id))
  /\ ThenSync(remove_member_from_project_result(project_id, member_id))

(* ------------------------- assignment advisor -------------------------- *)

\* a JSON value that is not an object: .get on it raises AttributeError
NotAnObject == [json |-> "string"]

\* app.py:1905-1929  the loop over result["team"]; the session autoflushes the
\* links added so far before each filter_by query.  Yields the link table and
\* the exception that ended the loop ("" when it ran through).
RECURSIVE ApplyTeam(_, _, _, _)
ApplyTeam(pms, team, k, project_id) ==
  IF k > Len(team) THEN [error |-> "", pms |-> pms]
  ELSE IF team[k] = NotAnObject THEN [error |-> "AttributeError", pms |-> pms]
  ELSE
    LET member_id == Get(team[k], "member_id", None)
        member == SetGet(team_members, member_id)
        existing == ExistingProjectMember(pms, project_id, member_id)
    IN IF member = NoRow \/ existing # {}
       THEN ApplyTeam(pms, team, k + 1, project_id)
       ELSE IF ViolatesUnique(pms, project_id, member_id)
       THEN [error |-> "IntegrityError", pms |-> pms]
       ELSE ApplyTeam(InsertProjectMember(pms, project_id, member_id), team, k + 1,
                      project_id)

\* app.py:1931-1954  the loop over result["assignments"]
RECURSIVE ApplyAssignments(_, _, _)
ApplyAssignments(T, assignments, k) ==
  IF k > Len(assignments) THEN T
  ELSE
    LET task_id == Get(assignments[k], "task_id", None)
        member_id == Get(assignments[k], "member_id", None)
        task == SeqGet(T, task_id)
        member == SetGet(team_members, member_id)
    IN IF task # NoRow /\ member # NoRow
       THEN ApplyAssignments(SeqPut(T, [task EXCEPT !.assigned_to = member_id]),
                             assignments, k + 1)
       ELSE ApplyAssignments(T, assignments, k + 1)

\* app.py:1764-1767  if not all_team_members
TeamMembersAssumed(M) == FALSE
NoTeamMembers(M) == M = {}

\* app.py:1749-1979  ai is what the text-generation collaborator did
assign_tasks_intelligently_with_mcp(project_id, ai) ==
  LET unassigned_tasks ==
        SelectSeq(tasks, LAMBDA t : t.project_id = project_id /\ t.assigned_to = None)
      team == Get(ai, "team", <<>>)
      assignments == Get(ai, "assignments", <<>>)
      applied == ApplyTeam(project_members, team, 1, project_id)
  IN IF unassigned_tasks = <<>>
     THEN Result(Store, Response(200, "No unassigned tasks found"), FALSE)
     ELSE IF NoTeamMembers(team_members)
     THEN Result(Store, Response(400, "No team members available in the system"), FALSE)
     ELSE IF ai.kind = "no_api"
     THEN Result(Store, Response(400, "No AI API available for task assignment"), FALSE)
     ELSE IF ai.kind = "unreachable"
     THEN Result(Store, Response(400, "provider error"), FALSE)
     ELSE IF ai.kind = "unparseable"
     THEN Result(Store, Response(400, "Failed to parse AI response"), FALSE)
     ELSE IF applied.error # ""
     THEN Result(Store, Response(400, applied.error), FALSE)
     ELSE Result([Store EXCEPT !.project_members = applied.pms,
                               !.tasks = ApplyAssignments(tasks, assignments, 1)],
                 Response(200, "assigned_by"), TRUE)

\* app.py:921-936
auto_assign_project_tasks_result(project_id, ai) ==
  IF SeqGet(projects, project_id) = NoRow
  THEN Result(Store, Response(404, "Project not found"), FALSE)
  ELSE assign_tasks_intelligently_with_mcp(project_id, ai)

auto_assign_project_tasks(project_id, ai) ==
  /\ Commit(auto_assign_project_tasks_result(project_id, ai))
  /\ ThenSync(auto_assign_project_tasks_result(project_id, ai))

(* ----------------------- nodes and connections ------------------------ *)

\* the graph endpoints touch no entity table and do not run the Synchronizer
GraphOnly == /\ UNCHANGED entityVars
             /\ syncStreak' = 0
             /\ removed' = NoneRemoved
             /\ UNCHANGED gen
             /\ Sequential

\* app.py:415-443
create_or_update_node(data) ==
  LET node == SetGet(nodes, data.id)
      updated == [id |-> node.id,
                  x |-> Get(data, "x", node.x),
                  y |-> Get(data, "y", node.y),
                  text |-> Get(data, "text", node.text),
                  level |-> Get(data, "level", node.level),
                  entity_type |-> Get(data, "entityType", node.entity_type),
                  entity_id |-> Get(data, "entityId", node.entity_id)]
      created == [id |-> NextRowId(nodes), x |-> data.x, y |-> data.y,
                  text |-> data.text, level |-> Get(data, "level", 0),
                  entity_type |-> Get(data, "entityType", None),
                  entity_id |-> Get(data, "entityId", None)]
  IN /\ IF Has(data, "id")
        THEN IF node # NoRow
             THEN /\ nodes' = (nodes \ {node}) \cup {updated}
                  /\ resp' = Response(200, "data")
             ELSE /\ UNCHANGED nodes
                  /\ resp' = Response(404, "error")
        ELSE IF {"x", "y", "text"} \subseteq DOMAIN data
             THEN /\ nodes' = nodes \cup {created}
                  /\ resp' = Response(200, "data")
             ELSE /\ UNCHANGED nodes
                  /\ resp' = Response(500, "error")
     /\ UNCHANGED connections
     /\ GraphOnly

\* app.py:447-459
delete_node(node_id) ==
  LET node == SetGet(nodes, node_id)
  IN /\ IF node = NoRow
        THEN /\ UNCHANGED graphVars
             /\ resp' = Response(404, "error")
        ELSE /\ connections' = {c \in connections :
                                  c.from_node # node_id /\ c.to_node # node_id}
             /\ nodes' = nodes \ {node}
             /\ resp' = Response(200, "success")
     /\ GraphOnly

\* app.py:474-476  Connection.query.filter_by(from_node, to_node): the rows first() picks from
NoExistingConnection(conns, from, to) == {}
ExistingConnection(conns, from, to) ==
  {c \in conns : c.from_node = from /\ c.to_node = to}

\* app.py:470-484
create_connection(data) ==
  LET existing == ExistingConnection(connections, data.from, data.to)
  IN /\ IF existing # {}
        THEN /\ UNCHANGED connections
             /\ resp' = Response(200, "existing")
        ELSE /\ connections' = AddConnection(connections, data.from, data.to)
             /\ resp' = Response(200, "data")
     /\ UNCHANGED nodes
     /\ GraphOnly

\* app.py:488-500  (first() takes the matching row of lowest rowid)
delete_connection_by_nodes(data) ==
  LET matching == {c \in connections : c.from_node = data.from /\ c.to_node = data.to}
      connection == CHOOSE c \in matching : \A d \in matching : c.id <= d.id
  IN /\ IF matching = {}
        THEN /\ UNCHANGED connections
             /\ resp' = Response(404, "error")
        ELSE /\ connections' = connections \ {connection}
             /\ resp' = Response(200, "success")
     /\ UNCHANGED nodes
     /\ GraphOnly

\* app.py:504-513
clear_all ==
  /\ connections' = {}
  /\ nodes' = {}
  /\ resp' = Response(200, "success")
  /\ GraphOnly

(* ------------------------- request bodies ------------------------------ *)

ProjectName(p) == "Project " \o p
MemberName(m) == "Member " \o m
ShortTitle == "Fix i18n string-loading bug"
LongTitle == "Refactoring identity-service for MFA hooks now"
TaskTitle(t) == IF t = TaskNames[1] THEN ShortTitle ELSE LongTitle

ProjectBodies ==
  {[id |-> p, name |-> ProjectName(p)] : p \in ProjectIds}

MemberBody(m) ==
  [id |-> m, name |-> MemberName(m), role |-> "Engineer", avatar |-> "AB",
   avatarColor |-> "60a5fa"]

MemberBodies == {MemberBody(m) : m \in MemberIds}

TaskBody(t, p) ==
  [id |-> t, title |-> TaskTitle(t), deadline |-> "Nov 10", projectId |-> p]

TaskBodies ==
  {TaskBody(t, p) : t \in TaskIds, p \in ProjectIds}
  \cup {[id |-> t, assignedTo |-> MemberNames[1]] : t \in TaskIds}

AssignBodies == {[assignedTo |-> a] : a \in MemberIds \cup {None}}

(* -------------------------- specification ------------------------------ *)

\* the entity endpoints and the on-demand synchronization, one request at a time
Next ==
  \/ \E data \in MemberBodies : create_or_update_team_member(data)
  \/ \E m \in MemberIds : delete_team_member(m)
  \/ \E data \in ProjectBodies : create_or_update_project(data)
  \/ \E p \in ProjectIds : delete_project(p)
  \/ \E data \in TaskBodies : create_or_update_task(data)
  \/ \E t \in TaskIds : delete_task(t)
  \/ \E t \in TaskIds, data \in AssignBodies : assign_task(t, data)
  \/ sync_mindmap

Spec == Init /\ [][Next]_vars


(* ----------------- the graph endpoints' specification ------------------ *)

P1 == ProjectNames[1]
M1 == MemberNames[1]
T1 == TaskNames[1]

\* a standalone node as the mindmap page posts it, and a drag of node 0
NodeBodies ==
  {[x |-> 400, y |-> 300, text |-> "Idea"], [id |-> 0, x |-> 175, y |-> 260]}

NodeIdArgs == 0..2

ConnectionBodies ==
  {[from |-> 0, to |-> 1], [from |-> 1, to |-> 0], [from |-> 1, to |-> 2]}

Standalone == {n \in nodes : n.entity_type = None}

\* the node and connection endpoints, with the entity requests that give the
\* Synchronizer a project, a member and an assigned task to draw
NextGraph ==
  \/ \E data \in NodeBodies :
       /\ Has(data, "id")
          \/ (Cardinality(Standalone) < MaxStandalone /\ NextRowId(nodes) <= MaxRowId)
       /\ create_or_update_node(data)
  \/ \E n \in NodeIdArgs : delete_node(n)
  \/ \E data \in ConnectionBodies :
       /\ NextRowId(connections) <= MaxRowId
       /\ create_connection(data)
  \/ \E data \in ConnectionBodies : delete_connection_by_nodes(data)
  \/ clear_all
  \/ create_or_update_project([id |-> P1, name |-> ProjectName(P1)])
  \/ create_or_update_team_member(MemberBody(M1))
  \/ create_or_update_task(TaskBody(T1, P1))
  \/ \E a \in {M1, None} : assign_task(T1, [assignedTo |-> a])
  \/ sync_mindmap

SpecGraph == Init /\ [][NextGraph]_vars

(* --------------- the project teams' specification ---------------------- *)

SeqsUpTo(S, n) == UNION {[1..k -> S] : k \in 0..n}

\* what the text-generation collaborator may answer
AdvisorOutcomes ==
  {[kind |-> "no_api"], [kind |-> "unreachable"], [kind |-> "unparseable"]}
  \cup {[kind |-> "proposal", team |-> t, assignments |-> a] :
          t \in SeqsUpTo({[member_id |-> m] : m \in MemberIds}, MaxTeam),
          a \in SeqsUpTo({[task_id |-> T1, member_id |-> m] : m \in MemberIds},
                         MaxAssignments)}
  \cup {[kind |-> "proposal", team |-> <<[member_name |-> MemberName(M1)]>>,
         assignments |-> <<[task_id |-> T1, member_id |-> M1]>>],
        [kind |-> "proposal", team |-> <<[member_id |-> M1], NotAnObject>>,
         assignments |-> <<>>]}

MemberIdBodies == {[memberId |-> m] : m \in MemberIds} \cup {[memberId |-> None]}

\* the project-member endpoints, the advisor and the deletions that cascade to
\* the links, over two projects and one task
NextTeam ==
  \/ \E data \in ProjectBodies : create_or_update_project(data)
  \/ \E p \in ProjectIds : delete_project(p)
  \/ \E m \in MemberIds : create_or_update_team_member(MemberBody(m))
  \/ \E m \in MemberIds : delete_team_member(m)
  \/ \E p \in ProjectIds : create_or_update_task(TaskBody(T1, p))
  \/ assign_task(T1, [assignedTo |-> None])
  \/ \E p \in ProjectIds, data \in MemberIdBodies :
       /\ NextRowId(project_members) <= MaxLinkId
       /\ assign_member_to_project(p, data)
  \/ \E p \in ProjectIds, m \in MemberIds : remove_member_from_project(p, m)
  \/ \E p \in ProjectIds, ai \in AdvisorOutcomes :
       /\ NextRowId(project_members) + MaxTeam <= MaxLinkId + 1
       /\ auto_assign_project_tasks(p, ai)

SpecTeam == Init /\ [][NextTeam]_vars

(* ------------------- the upserts' specification ------------------------ *)

\* the request with the given id and the fields S, with values from vals
Body(id, S, vals) == [f \in S \cup {"id"} |-> IF f = "id" THEN id ELSE vals[f]]

\* request field -> column, per entity
ProjectColumns == [name |-> "name", tagColor |-> "tag_color", description |-> "description"]
MemberColumns == [name |-> "name", role |-> "role", avatar |-> "avatar",
                  avatarColor |-> "avatar_color"]
TaskColumns == [title |-> "title", priority |-> "priority", deadline |-> "deadline",
                projectId |-> "project_id", assignedTo |-> "assigned_to"]

\* the fields an insert reads with data[...]
ProjectRequired == {"name"}
MemberRequired == {"name", "role", "avatar", "avatarColor"}
TaskRequired == {"title", "deadline", "projectId"}

\* values of a first request, and values a later request changes them to
ProjectValues == [name |-> ProjectName(P1), tagColor |-> "green", description |-> "Voice app"]
ProjectChanges == [name |-> "Renamed", tagColor |-> "red", description |-> "Rewritten"]
MemberValues == [name |-> MemberName(M1), role |-> "Engineer", avatar |-> "AB",
                 avatarColor |-> "60a5fa"]
MemberChanges == [name |-> "Renamed", role |-> "Lead", avatar |-> "CD",
                  avatarColor |-> "34d399"]
TaskValues == [title |-> ShortTitle, priority |-> "high", deadline |-> "Nov 10",
               projectId |-> P1, assignedTo |-> M1]
TaskChanges == [title |-> LongTitle, priority |-> "low", deadline |-> "Dec 01",
                projectId |-> ProjectNames[2], assignedTo |-> None]

\* requests that carry no field, one field, or every field
FieldSets(columns) == {S \in SUBSET DOMAIN columns : Cardinality(S) <= 1 \/ S = DOMAIN columns}

UpsertProjectBodies ==
  {Body(P1, S, ProjectValues) : S \in {ProjectRequired, DOMAIN ProjectColumns}}
  \cup {Body(P1, S, ProjectChanges) : S \in FieldSets(ProjectColumns)}
UpsertMemberBodies ==
  {Body(M1, S, MemberValues) : S \in {MemberRequired}}
  \cup {Body(M1, S, MemberChanges) : S \in FieldSets(MemberColumns)}
UpsertTaskBodies ==
  {Body(T1, S, TaskValues) : S \in {TaskRequired, DOMAIN TaskColumns}}
  \cup {Body(T1, S, TaskChanges) : S \in FieldSets(TaskColumns)}

\* the three upserts on one project, one member and one task
NextUpsert ==
  \/ \E data \in UpsertProjectBodies : create_or_update_project(data)
  \/ \E data \in UpsertMemberBodies : create_or_update_team_member(data)
  \/ \E data \in UpsertTaskBodies : create_or_update_task(data)

SpecUpsert == Init /\ [][NextUpsert]_vars

(* --------------- the pass, statement by statement ---------------------- *)

\* app.py:34  sqlite:///project_tracker.db: the database file has one write
\* lock; a statement that writes goes ahead when no other thread holds it
LockIgnored(s) == TRUE
LockFree(s) == dbLock \in {0, s}

\* the thread is between the pass's first DELETE and its commit or rollback
InPass(s) == sess[s].pc \in {"cleared", "subtrees"}

\* a handler up to and including its own db.session.commit(), run by thread s
Handle(s, r) ==
  /\ sess[s].pc = "idle"
  /\ LockFree(s)
  /\ projects' = r.store.projects
  /\ tasks' = r.store.tasks
  /\ team_members' = r.store.team_members
  /\ project_members' = r.store.project_members
  /\ removed' = Get(r, "removed", NoneRemoved)
  /\ sess' = [sess EXCEPT ![s] = IF r.sync THEN [pc |-> "sync", resp |-> r.resp]
                                 ELSE Idle("")]
  /\ resp' = IF r.sync THEN resp ELSE r.resp
  /\ syncStreak' = 0
  /\ gen' = Spawn(r)
  /\ UNCHANGED <<nodes, connections, dbLock, use_ai, task_data>>

project_request(s, data) ==
  /\ s \in Sessions
  /\ Handle(s, create_or_update_project_result(data))

project_delete_request(s, p) ==
  /\ s \in Sessions
  /\ Handle(s, delete_project_result(p))

task_request(s, data) ==
  /\ s \in Sessions
  /\ Handle(s, create_or_update_task_result(data))

assign_request(s, t, data) ==
  /\ s \in Sessions
  /\ Handle(s, assign_task_result(t, data))

\* app.py:1050-1053  the on-demand pass asked for by thread s; the handler
\* writes nothing before it calls sync_mindmap_internal()
sync_request(s) ==
  /\ sess[s].pc = "idle"
  /\ sess' = [sess EXCEPT ![s] = [pc |-> "sync", resp |-> sync_mindmap_result.resp]]
  /\ syncStreak' = 0
  /\ removed' = NoneRemoved
  /\ UNCHANGED <<entityVars, graphVars, resp, dbLock, use_ai, gen, task_data>>

\* the handler's first write finds the database locked until the driver's
\* busy timeout runs out; the exception leaves the handler
RequestLocked(s) ==
  /\ sess[s].pc = "idle"
  /\ ~LockFree(s)
  /\ resp' = Response(500, "database is locked")
  /\ syncStreak' = 0
  /\ removed' = NoneRemoved
  /\ UNCHANGED <<entityVars, graphVars, sess, dbLock, use_ai, gen, task_data>>

\* app.py:736-738  sync_mindmap_internal() has returned: the handler answers
\* with the response of its mutation
ErrorAfterPass(s) == Response(500, "error")
ResponseAfterPass(s) == sess[s].resp

\* app.py:943-949  the two bulk deletes open the pass's transaction and take
\* the write lock; the projects are read
SyncBegin(s) ==
  /\ sess[s].pc = "sync"
  /\ LockFree(s)
  /\ dbLock' = s
  /\ sess' = [sess EXCEPT ![s] = [pc |-> "cleared", resp |-> sess[s].resp,
                                  st |-> SyncClear, P |-> projects]]
  /\ UNCHANGED <<entityVars, graphVars, resp, syncStreak, removed, use_ai, gen, task_data>>

\* app.py:943, 1044-1046  the first DELETE times out on the lock; the pass
\* prints the error and returns
SyncLocked(s) ==
  /\ sess[s].pc = "sync"
  /\ ~LockFree(s)
  /\ sess' = [sess EXCEPT ![s] = Idle("Error syncing mindmap: database is locked")]
  /\ resp' = ResponseAfterPass(s)
  /\ UNCHANGED <<entityVars, graphVars, syncStreak, removed, dbLock, use_ai, gen, task_data>>

\* app.py:956-968  the first loop over the projects
SyncProjects(s) ==
  /\ sess[s].pc = "cleared"
  /\ sess' = [sess EXCEPT ![s] =
                [pc |-> "subtrees", resp |-> sess[s].resp,
                 st |-> EmitProjectNodes(sess[s].st, sess[s].P),
                 P |-> sess[s].P, base |-> sess[s].st.counter, i |-> 1]]
  /\ UNCHANGED <<entityVars, graphVars, resp, syncStreak, removed, dbLock, use_ai, gen, task_data>>

\* app.py:971-1040  one iteration of the second loop; its queries read the
\* tasks and the members as they are now
SyncSubtree(s) ==
  /\ sess[s].pc = "subtrees"
  /\ sess[s].i <= Len(sess[s].P)
  /\ sess' = [sess EXCEPT
                ![s].st = EmitProjectSubtree(sess[s].st, sess[s].base, sess[s].i,
                                             sess[s].P, tasks, team_members),
                ![s].i = sess[s].i + 1]
  /\ UNCHANGED <<entityVars, graphVars, resp, syncStreak, removed, dbLock, use_ai, gen, task_data>>

\* app.py:1042  db.session.commit(): the pass's rows become the stored graph
SyncCommit(s) ==
  /\ sess[s].pc = "subtrees"
  /\ sess[s].i > Len(sess[s].P)
  /\ nodes' = sess[s].st.nodes
  /\ connections' = sess[s].st.conns
  /\ dbLock' = 0
  /\ sess' = [sess EXCEPT ![s] = Idle("")]
  /\ resp' = ResponseAfterPass(s)
  /\ syncStreak' = 1
  /\ UNCHANGED <<entityVars, removed, use_ai, gen, task_data>>

\* app.py:1045  db.session.rollback(): the stored graph after a failed pass
SyncKeepPartial(s) == [nodes |-> sess[s].st.nodes, conns |-> sess[s].st.conns]
SyncRollback(s) == [nodes |-> nodes, conns |-> connections]

\* app.py:1044-1046  a statement of the pass raises (the store is unavailable)
SyncFail(s) ==
  /\ InPass(s)
  /\ nodes' = SyncRollback(s).nodes
  /\ connections' = SyncRollback(s).conns
  /\ dbLock' = 0
  /\ sess' = [sess EXCEPT ![s] = Idle("Error syncing mindmap")]
  /\ resp' = ResponseAfterPass(s)
  /\ UNCHANGED <<entityVars, syncStreak, removed, use_ai, gen, task_data>>

\* the store once member m1 has been created
InitConc ==
  /\ projects = <<>>
  /\ tasks = <<>>
  /\ team_members = {[id |-> M1, name |-> MemberName(M1), role |-> "Engineer",
                      avatar |-> "AB", avatar_color |-> "60a5fa"]}
  /\ project_members = {}
  /\ nodes = {}
  /\ connections = {}
  /\ resp = Response(200, "data")
  /\ syncStreak = 0
  /\ removed = NoneRemoved
  /\ sess = [s \in Sessions |-> Idle("")]
  /\ dbLock = 0
  /\ use_ai = FALSE
  /\ gen = [k \in Slots |-> NoRow]
  /\ task_data = <<>>

\* requests that end in a pass, handled by threads that run side by side
NextConc ==
  \E s \in Sessions :
    \/ \E data \in ProjectBodies : project_request(s, data)
    \/ project_delete_request(s, P1)
    \/ \E p \in ProjectIds : task_request(s, TaskBody(T1, p))
    \/ \E a \in {M1, None} : assign_request(s, T1, [assignedTo |-> a])
    \/ sync_request(s)
    \/ RequestLocked(s)
    \/ SyncBegin(s)
    \/ SyncLocked(s)
    \/ SyncProjects(s)
    \/ SyncSubtree(s)
    \/ SyncCommit(s)

SpecConc == InitConc /\ [][NextConc]_vars

\* the same threads, with passes that may fail at any statement
NextTxn ==
  \/ NextConc
  \/ \E s \in Sessions : SyncFail(s)

SpecTxn == InitConc /\ [][NextTxn]_vars

(* ------------------ tech-stack generation threads ---------------------- *)

\* the parsed answer of the provider, as stored in tasks.tech_stack
TechStackData == "tech_stack_json"

\* the save of a payload that carries every argument of the thread
SavedTaskWithArgs(T, th) ==
  LET row == [id |-> th.task_id, title |-> th.task_title, priority |-> th.priority,
              deadline |-> th.deadline, project_id |-> th.project_id,
              assigned_to |-> th.assignee_id, tech_stack |-> TechStackData]
  IN IF \E i \in 1..Len(T) : T[i].id = th.task_id
     THEN [i \in 1..Len(T) |-> IF T[i].id = th.task_id THEN row ELSE T[i]]
     ELSE Append(T, row)

\* app.py:370-372  the flush updates the columns the thread assigned, in the
\* row with the task's primary key; a row deleted meanwhile matches nothing
SavedTask(T, th) ==
  [i \in 1..Len(T) |->
     IF T[i].id = th.task_id THEN [T[i] EXCEPT !.tech_stack = TechStackData] ELSE T[i]]

ThreadOnly ==
  UNCHANGED <<projects, team_members, project_members, graphVars, resp,
              syncStreak, removed, sess, dbLock, use_ai, task_data>>

\* app.py:270-275  the thread looks its task up and ends when it is gone
GenLoad(k) ==
  /\ gen[k] # NoRow
  /\ gen[k].pc = "start"
  /\ gen' = [gen EXCEPT ![k] = IF SeqGet(tasks, gen[k].task_id) = NoRow
                               THEN NoRow
                               ELSE [gen[k] EXCEPT !.pc = "asked"]]
  /\ UNCHANGED tasks
  /\ ThreadOnly

\* app.py:357-374  the provider answered with JSON: save and end
GenSave(k) ==
  /\ gen[k] # NoRow
  /\ gen[k].pc = "asked"
  /\ tasks' = SavedTask(tasks, gen[k])
  /\ gen' = [gen EXCEPT ![k] = NoRow]
  /\ ThreadOnly

\* app.py:328-349, 368, 376-377  the provider or the parse raised: print and end
GenGiveUp(k) ==
  /\ gen[k] # NoRow
  /\ gen[k].pc = "asked"
  /\ gen' = [gen EXCEPT ![k] = NoRow]
  /\ UNCHANGED tasks
  /\ ThreadOnly

InitTech ==
  /\ projects = <<>>
  /\ tasks = <<>>
  /\ team_members = {}
  /\ project_members = {}
  /\ nodes = {}
  /\ connections = {}
  /\ resp = Response(200, "data")
  /\ syncStreak = 0
  /\ removed = NoneRemoved
  /\ sess = [s \in Sessions |-> Idle("")]
  /\ dbLock = 0
  /\ use_ai = TRUE
  /\ gen = [k \in Slots |-> NoRow]
  /\ task_data = <<>>

\* a task as posted, and an edit of its title and priority
TechTaskBodies ==
  {TaskBody(t, P1) : t \in TaskIds}
  \cup {[id |-> T1, title |-> "Renamed", priority |-> "high"]}

\* task requests of one project and one member beside the running threads
NextTech ==
  \/ create_or_update_project([id |-> P1, name |-> ProjectName(P1)])
  \/ create_or_update_team_member(MemberBody(M1))
  \/ \E data \in TechTaskBodies : create_or_update_task(data)
  \/ \E t \in TaskIds : delete_task(t)
  \/ \E t \in TaskIds, a \in {M1, None} :
       /\ FreeSlots # {}
       /\ assign_task(t, [assignedTo |-> a])
  \/ \E k \in Slots : GenLoad(k)
  \/ \E k \in Slots : GenSave(k)
  \/ \E k \in Slots : GenGiveUp(k)

SpecTech == InitTech /\ [][NextTech]_vars

(* -------------------- the advisor's task ordering ---------------------- *)

\* tasks the advisor may be given at a time
MaxSortTasks == 3

\* ord(c) of the characters of the stored deadlines
CodePoint ==
  [c \in {" ", "0", "1", "9", "D", "N", "c", "e", "o", "v"} |->
     CASE c = " " -> 32 [] c = "0" -> 48 [] c = "1" -> 49 [] c = "9" -> 57
       [] c = "D" -> 68 [] c = "N" -> 78 [] c = "c" -> 99 [] c = "e" -> 101
       [] c = "o" -> 111 [] c = "v" -> 118]

\* Python's a < b on str: by code point, a proper prefix first
RECURSIVE StrLess(_, _)
StrLess(a, b) ==
  IF Len(b) = 0 THEN FALSE
  ELSE IF Len(a) = 0 THEN TRUE
  ELSE IF SubSeq(a, 1, 1) # SubSeq(b, 1, 1)
  THEN CodePoint[SubSeq(a, 1, 1)] < CodePoint[SubSeq(b, 1, 1)]
  ELSE StrLess(SubSeq(a, 2, Len(a)), SubSeq(b, 2, Len(b)))

\* str.lower(), over the letters the priorities are written with
RECURSIVE Lower(_)
Lower(str) ==
  IF Len(str) = 0 THEN ""
  ELSE LET c == SubSeq(str, 1, 1)
           l == CASE c = "H" -> "h" [] c = "M" -> "m" [] c = "L" -> "l" [] OTHER -> c
       IN l \o Lower(SubSeq(str, 2, Len(str)))

\* app.py:1789-1791  {"high": 3, "medium": 2, "low": 1}.get(task.priority.lower(), 2)
PriorityScore(priority) ==
  LET p == Lower(priority)
  IN IF p = "high" THEN 3 ELSE IF p = "medium" THEN 2 ELSE IF p = "low" THEN 1 ELSE 2

\* app.py:1792-1800  the entry of one task
TaskData(task) ==
  [id |-> task.id, title |-> task.title, priority |-> task.priority,
   priority_score |-> PriorityScore(task.priority), deadline |-> task.deadline]

\* app.py:1803  key=lambda x: (-x["priority_score"], x["deadline"]), as a < b
KeyLessAscending(a, b) ==
  \/ a.priority_score < b.priority_score
  \/ a.priority_score = b.priority_score /\ StrLess(a.deadline, b.deadline)
KeyLess(a, b) ==
  \/ -a.priority_score < -b.priority_score
  \/ -a.priority_score = -b.priority_score /\ StrLess(a.deadline, b.deadline)

\* list.sort is stable: x goes behind every entry that is not greater than it
InsertSorted(sorted, x) ==
  LET n == Cardinality({i \in DOMAIN sorted : ~KeyLess(x, sorted[i])})
  IN SubSeq(sorted, 1, n) \o <<x>> \o SubSeq(sorted, n + 1, Len(sorted))

RECURSIVE SortedUpTo(_, _)
SortedUpTo(data, n) ==
  IF n = 0 THEN <<>> ELSE InsertSorted(SortedUpTo(data, n - 1), data[n])

\* app.py:1785-1803  task_data as it enters the prompt
SortedTaskData(unassigned_tasks) ==
  SortedUpTo([i \in DOMAIN unassigned_tasks |-> TaskData(unassigned_tasks[i])],
             Len(unassigned_tasks))

\* app.py:1756-1803  the advisor up to its prompt, for project_id
BuildTaskData(project_id) ==
  LET unassigned_tasks ==
        SelectSeq(tasks, LAMBDA t : t.project_id = project_id /\ t.assigned_to = None)
  IN /\ unassigned_tasks # <<>>
     /\ ~NoTeamMembers(team_members)
     /\ task_data' = SortedTaskData(unassigned_tasks)
     /\ UNCHANGED <<entityVars, graphVars, resp, syncStreak, removed, sess, dbLock,
                    use_ai, gen>>

Priorities == {"high", "medium", "low", "High"}
Deadlines == {"Nov 10", "Nov 9", "Dec 01"}

\* the task at position i of the store
SortTask(i, priority, deadline, assigned_to) ==
  [id |-> "t" \o ToString(i), title |-> ShortTitle, priority |-> priority,
   deadline |-> deadline, project_id |-> P1, assigned_to |-> assigned_to,
   tech_stack |-> None]

\* stores of up to MaxSortTasks tasks of project P1, the first one possibly assigned
SortInputs ==
  UNION {{[i \in 1..n |-> SortTask(i, f[i].priority, f[i].deadline,
                                   IF i = 1 THEN a ELSE None)] :
            f \in [1..n -> [priority : Priorities, deadline : Deadlines]],
            a \in {None, M1}} :
         n \in 0..MaxSortTasks}

InitSort ==
  /\ projects = <<[id |-> P1, name |-> ProjectName(P1), tag_color |-> "blue",
                   description |-> ""]>>
  /\ tasks \in SortInputs
  /\ team_members = {[id |-> M1, name |-> MemberName(M1), role |-> "Engineer",
                      avatar |-> "AB", avatar_color |-> "60a5fa"]}
  /\ project_members = {}
  /\ nodes = SyncPass(projects, tasks, team_members).nodes
  /\ connections = SyncPass(projects, tasks, team_members).conns
  /\ resp = Response(200, "data")
  /\ syncStreak = 1
  /\ removed = NoneRemoved
  /\ sess = [s \in Sessions |-> Idle("")]
  /\ dbLock = 0
  /\ use_ai = TRUE
  /\ gen = [k \in Slots |-> NoRow]
  /\ task_data = <<>>

NextSort == /\ projects # <<>>
            /\ BuildTaskData(P1)

SpecSort == InitSort /\ [][NextSort]_vars

(* ----------------------- the layout of a pass ------------------------- *)

\* members and tasks of the project that is laid out
LayoutMembers == 3
LayoutTasks == 6

LayoutMemberIds == {MemberNames[i] : i \in 1..LayoutMembers}

\* stores of one project whose tasks are each unassigned or assigned to a member
LayoutInputs ==
  {[i \in 1..LayoutTasks |-> SortTask(i, "medium", "Nov 10", f[i])] :
     f \in [1..LayoutTasks -> LayoutMemberIds \cup {None}]}

\* the store after its requests, the graph after clear-all
InitLayout ==
  /\ projects = <<[id |-> P1, name |-> ProjectName(P1), tag_color |-> "blue",
                   description |-> ""]>>
  /\ tasks \in LayoutInputs
  /\ team_members = {[id |-> m, name |-> MemberName(m), role |-> "Engineer",
                      avatar |-> "AB", avatar_color |-> "60a5fa"] : m \in LayoutMemberIds}
  /\ project_members = {}
  /\ nodes = {}
  /\ connections = {}
  /\ resp = Response(200, "success")
  /\ syncStreak = 0
  /\ removed = NoneRemoved
  /\ sess = [s \in Sessions |-> Idle("")]
  /\ dbLock = 0
  /\ use_ai = FALSE
  /\ gen = [k \in Slots |-> NoRow]
  /\ task_data = <<>>

NextLayout ==
  \/ /\ projects # <<>>
     /\ sync_mindmap
  \/ /\ nodes # {}
     /\ clear_all

SpecLayout == InitLayout /\ [][NextLayout]_vars

(* ------------------------------ claims --------------------------------- *)

\* the (from, to) pairs of a set of Connection rows
ConnPairs(conns) == {<<c.from_node, c.to_node>> : c \in conns}

\* the graph a complete Synchronizer pass derives from the given store
Derived(P, T, M) == [nodes |-> SyncPass(P, T, M).nodes, conns |-> SyncPass(P, T, M).conns]

\* C1: a Synchronizer pass that directly follows another pass, with no request
\* in between that could change Projects, Tasks or TeamMembers, leaves the
\* same set of nodes (id, x, y, text, level, entityType, entityId) and the
\* same set of (from, to) connections.
C1_SyncIdempotent ==
  [][syncStreak' = 2 =>
       /\ nodes' = nodes
       /\ ConnPairs(connections') = ConnPairs(connections)]_vars

\* a second pass in a row has run on a graph that has project, team, member
\* and task nodes
C1_Witness ==
  /\ syncStreak = 2
  /\ \A l \in 0..3 : \E n \in nodes : n.level = l

\* C2: every request that changes Project, Task or TeamMember data leaves the
\* stored graph equal to the graph derived from the store it leaves.
C2_MutationSyncsGraph ==
  [][<<projects, tasks, team_members>>' # <<projects, tasks, team_members>> =>
       /\ nodes' = Derived(projects', tasks', team_members').nodes
       /\ connections' = Derived(projects', tasks', team_members').conns]_vars

\* C6: every Task's projectId references an existing Project.
C6_TaskProjectExists ==
  \A i \in DOMAIN tasks : \E j \in DOMAIN projects : projects[j].id = tasks[i].project_id

\* C7: every Task's assignedTo is null or the id of an existing TeamMember.
C7_AssigneeExists ==
  \A i \in DOMAIN tasks :
    \/ tasks[i].assigned_to = None
    \/ \E m \in team_members : m.id = tasks[i].assigned_to


\* C3: a Synchronizer pass keeps every node that carries no entityType, with
\* its id, position and text.
C3_StandaloneKept ==
  [][syncStreak' >= 1 => \A n \in nodes : n.entity_type = None => n \in nodes']_vars

\* C9: no two Connection rows share their (from, to) pair, whatever
\* create-connection requests and Synchronizer passes came before.
C9_ConnectionPairsUnique ==
  \A c1, c2 \in connections :
    (c1.from_node = c2.from_node /\ c1.to_node = c2.to_node) => c1 = c2

\* a create-connection request for a pair that exists was answered with the
\* existing row, with a second connection in the table
C9_Witness ==
  /\ resp = Response(200, "existing")
  /\ Cardinality(connections) >= 2


HasLink(p, m) == \E pm \in project_members : pm.project_id = p /\ pm.member_id = m

C8_PairsUnique ==
  \A a, b \in project_members :
    (a.project_id = b.project_id /\ a.member_id = b.member_id) => a = b

\* C8: ProjectMember (projectId, memberId) pairs are unique in every state; an
\* assign-member-to-project request for a pair that is linked answers with the
\* existing link and adds no row; an advisor run that applies a proposal adds
\* exactly one row for each existing member its team names that had no link to
\* the project, and no other row, also when the team names a member twice.
C8_LinksUnique ==
  /\ []C8_PairsUnique
  /\ [][\A p \in ProjectIds, m \in MemberIds :
          (HasLink(p, m) /\ assign_member_to_project(p, [memberId |-> m])) =>
            /\ project_members' = project_members
            /\ resp' = Response(200, "Member already assigned")]_vars
  /\ [][\A p \in ProjectIds, ai \in AdvisorOutcomes :
          (auto_assign_project_tasks(p, ai) /\ resp'.body = "assigned_by") =>
            LET added == project_members' \ project_members
                named == {Get(ai.team[k], "member_id", None) : k \in DOMAIN ai.team}
                due == {m \in named : SetGet(team_members, m) # NoRow /\ ~HasLink(p, m)}
            IN /\ project_members \subseteq project_members'
               /\ \A a \in added : a.project_id = p /\ a.member_id \in due
               /\ \A m \in due : Cardinality({a \in added : a.member_id = m}) = 1]_vars

\* a repeated assign-member request was answered with the existing link while
\* the member is linked to both projects
C8_Witness ==
  /\ resp = Response(200, "Member already assigned")
  /\ \E m \in MemberIds : \A p \in ProjectIds : HasLink(p, m)

\* C10: a delete-project request for an existing project leaves no Project
\* with that id, no Task of that project, no ProjectMember link of that
\* project, and a graph with no node whose entityId is that id.
C10_DeleteProjectCascades ==
  [][\A p \in ProjectIds :
       (SeqGet(projects, p) # NoRow /\ delete_project(p)) =>
         /\ SeqGet(projects', p) = NoRow
         /\ \A i \in DOMAIN tasks' : tasks'[i].project_id # p
         /\ \A pm \in project_members' : pm.project_id # p
         /\ \A n \in nodes' : n.entity_id # p]_vars

\* a project with a task and a link has been deleted while another project,
\* with a link of its own, is still drawn
C10_Witness ==
  /\ removed.tasks >= 1
  /\ removed.links >= 1
  /\ Len(projects) = 1
  /\ project_members # {}
  /\ nodes # {}


\* the thread's next step is the commit of a pass that ran through
AtCommit(s) == sess[s].pc = "subtrees" /\ sess[s].i > Len(sess[s].P)

\* C4: the stored Nodes and Connections change only at the commit of a pass
\* that ran through, and then to the complete graph derived from the store, so
\* that a reader never sees a cleared or partly rebuilt graph; a pass that
\* fails after its clear leaves the stored Nodes and Connections as they were
\* before the pass.
C4_PassAtomic ==
  [][/\ graphVars' # graphVars =>
          /\ \E s \in Sessions : AtCommit(s) /\ sess'[s].pc = "idle"
          /\ nodes' = Derived(projects, tasks, team_members).nodes
          /\ connections' = Derived(projects, tasks, team_members).conns
     /\ \A s \in Sessions :
          (InPass(s) /\ sess'[s] = Idle("Error syncing mindmap")) =>
            UNCHANGED graphVars]_vars

\* a pass failed after its clear, and the stored graph is still the one from
\* before the pass although the store has moved on
C4_Witness ==
  /\ \E s \in Sessions : sess[s] = Idle("Error syncing mindmap")
  /\ nodes # {}
  /\ nodes # Derived(projects, tasks, team_members).nodes

\* C5: no two threads are inside a pass at once (the clear of one pass never
\* interleaves with the inserts of another), and whenever every request has
\* finished the stored graph is the graph a single complete pass derives from
\* the store, also when one of the racing passes gave up on the lock.
C5_PassesSerialized ==
  /\ \A s1, s2 \in Sessions : (InPass(s1) /\ InPass(s2)) => s1 = s2
  /\ (\A s \in Sessions : sess[s].pc = "idle") =>
       /\ nodes = Derived(projects, tasks, team_members).nodes
       /\ connections = Derived(projects, tasks, team_members).conns

\* two requests raced: one pass gave up on the lock, the other committed, and
\* the stored graph shows the assigned task
C5_Witness ==
  /\ \A s \in Sessions : sess[s].pc = "idle"
  /\ \E s \in Sessions : sess[s].log = "Error syncing mindmap: database is locked"
  /\ \E n \in nodes : n.level = 3


\* C11: a delete-team-member request for an existing member leaves the Task
\* ids as they were, in the same order, sets assignedTo to null on every Task
\* that was assigned to the member, changes no other Task, and leaves no
\* ProjectMember link of the member.
C11_DeleteMemberKeepsTasks ==
  [][\A m \in MemberIds :
       (SetGet(team_members, m) # NoRow /\ delete_team_member(m)) =>
         /\ DOMAIN tasks' = DOMAIN tasks
         /\ \A i \in DOMAIN tasks :
              /\ tasks'[i].id = tasks[i].id
              /\ tasks[i].assigned_to = m => tasks'[i].assigned_to = None
              /\ tasks[i].assigned_to # m => tasks'[i] = tasks[i]
         /\ \A pm \in project_members' : pm.member_id # m]_vars

\* a member with a task and a link has been deleted; the task is still stored
C11_Witness ==
  /\ removed.nulled >= 1
  /\ removed.links >= 1
  /\ tasks # <<>>
  /\ \A i \in DOMAIN tasks : tasks[i].assigned_to = None


\* the tasks of project p, and whether one of them has an assignee
TasksOf(p) == {tasks[i] : i \in {j \in DOMAIN tasks : tasks[j].project_id = p}}
HasAssignedTask(p) == \E t \in TasksOf(p) : t.assigned_to # None

\* C12: in the graph a pass has just stored, a project none of whose tasks has
\* an assignee is shown by exactly one node, of level 0, with no connection
\* leaving it, and none of the project's tasks has a node.
C12_UnassignedProjectBare ==
  syncStreak >= 1 =>
    \A i \in DOMAIN projects :
      ~HasAssignedTask(projects[i].id) =>
        /\ \E n \in nodes :
             /\ n.level = 0
             /\ {k \in nodes : k.entity_id = projects[i].id} = {n}
             /\ \A c \in connections : c.from_node # n.id
        /\ \A n \in nodes, t \in TasksOf(projects[i].id) : n.entity_id # t.id

\* a pass has drawn a project that has an unassigned task next to a project
\* whose task is assigned
C12_Witness ==
  /\ syncStreak >= 1
  /\ \E i, j \in DOMAIN projects :
       /\ TasksOf(projects[i].id) # {}
       /\ ~HasAssignedTask(projects[i].id)
       /\ HasAssignedTask(projects[j].id)
  /\ \E n \in nodes : n.level = 3


\* the unassigned tasks of project p, as the advisor queries them
UnassignedOf(p) == {t \in TasksOf(p) : t.assigned_to = None}

\* C13: an auto-assign request for an existing project that has an unassigned
\* task, made while no TeamMember is stored, is answered with the error
\* "No team members available in the system" and leaves every table as it was.
C13_NoTeamMembersNoChange ==
  [][\A p \in ProjectIds, ai \in AdvisorOutcomes :
       (/\ SeqGet(projects, p) # NoRow
        /\ UnassignedOf(p) # {}
        /\ team_members = {}
        /\ auto_assign_project_tasks(p, ai)) =>
         /\ resp' = Response(400, "No team members available in the system")
         /\ UNCHANGED <<entityVars, graphVars>>]_vars

\* the advisor has refused for lack of team members, with a task stored
C13_Witness ==
  /\ resp = Response(400, "No team members available in the system")
  /\ team_members = {}
  /\ \E p \in ProjectIds : SeqGet(projects, p) # NoRow /\ UnassignedOf(p) # {}


\* the advisor gets as far as asking the collaborator for project p
AdvisorAsks(p) ==
  /\ SeqGet(projects, p) # NoRow
  /\ UnassignedOf(p) # {}
  /\ team_members # {}

\* a proposal that names a member that is not stored, or a task that is not
\* stored, not of project p, or assigned
InvalidProposal(p, ai) ==
  \/ \E k \in DOMAIN ai.team :
       SetGet(team_members, Get(ai.team[k], "member_id", None)) = NoRow
  \/ \E k \in DOMAIN ai.assignments :
       LET task == SeqGet(tasks, ai.assignments[k].task_id)
       IN \/ SetGet(team_members, ai.assignments[k].member_id) = NoRow
          \/ task = NoRow
          \/ task.project_id # p
          \/ task.assigned_to # None

\* C14: an auto-assign request whose proposal is invalid fails, and changes
\* no Task and no ProjectMember link.
C14_ProposalValidated ==
  [][\A p \in ProjectIds, ai \in AdvisorOutcomes :
       (/\ AdvisorAsks(p)
        /\ ai.kind = "proposal"
        /\ InvalidProposal(p, ai)
        /\ auto_assign_project_tasks(p, ai)) =>
         /\ resp'.status # 200
         /\ tasks' = tasks
         /\ project_members' = project_members]_vars


\* C15: after an auto-assign request that applies a valid proposal, every
\* proposed assignment of task T to member M shows in the store and the graph:
\* T is assigned to M, the project has a link to M, and a level-3 node of T is
\* connected from a level-2 node of M.
C15_AppliedProposalShows ==
  [][\A p \in ProjectIds, ai \in AdvisorOutcomes :
       (/\ AdvisorAsks(p)
        /\ ai.kind = "proposal"
        /\ ~InvalidProposal(p, ai)
        /\ auto_assign_project_tasks(p, ai)) =>
         \A k \in DOMAIN ai.assignments :
           LET T == ai.assignments[k].task_id
               M == ai.assignments[k].member_id
           IN /\ SeqGet(tasks', T).assigned_to = M
              /\ \E pm \in project_members' : pm.project_id = p /\ pm.member_id = M
              /\ \E n3, n2 \in nodes' :
                   /\ n3.level = 3 /\ n3.entity_id = T
                   /\ n2.level = 2 /\ n2.entity_id = M
                   /\ \E c \in connections' :
                        c.from_node = n2.id /\ c.to_node = n3.id]_vars


\* a parsed answer with a team or assignment entry that is not an object or
\* lacks an id the apply step reads
Malformed(ai) ==
  /\ ai.kind = "proposal"
  /\ \/ \E k \in DOMAIN ai.team : ~Has(ai.team[k], "member_id")
     \/ \E k \in DOMAIN ai.assignments :
          ~Has(ai.assignments[k], "task_id") \/ ~Has(ai.assignments[k], "member_id")

\* the collaborator could not be reached or its answer cannot be used
AdvisorFailure(ai) ==
  \/ ai.kind \in {"no_api", "unreachable", "unparseable"}
  \/ Malformed(ai)

\* C16: an auto-assign request whose collaborator is unreachable or answers
\* with unparseable or malformed output is answered with an error, and every
\* Task and the set of ProjectMember links are as before the request.
C16_AdvisorFailureNoChange ==
  [][\A p \in ProjectIds, ai \in AdvisorOutcomes :
       (/\ AdvisorAsks(p)
        /\ AdvisorFailure(ai)
        /\ auto_assign_project_tasks(p, ai)) =>
         /\ resp'.status # 200
         /\ tasks' = tasks
         /\ project_members' = project_members]_vars


\* the thread's pass ends in this step with an error printed
PassFails(s) ==
  /\ sess[s].pc \in {"sync", "cleared", "subtrees"}
  /\ sess'[s].pc = "idle"
  /\ sess'[s].log # ""

\* C17: no step of a pass changes an entity table, so the mutation a handler
\* committed before its pass stays committed whatever the pass does; and when
\* the pass fails the request is answered with the success response of the
\* mutation.
C17_MutationSurvivesSyncFailure ==
  [][\A s \in Sessions :
       /\ (sess[s].pc \in {"sync", "cleared", "subtrees"} /\ sess'[s] # sess[s]) =>
            UNCHANGED entityVars
       /\ PassFails(s) =>
            /\ resp' = sess[s].resp
            /\ resp'.status = 200]_vars

\* the pass of an assign request failed after its clear: the task is assigned
\* in the store, the request was answered with the task, and the graph does
\* not show the task
C17_Witness ==
  /\ \E s \in Sessions : sess[s] = Idle("Error syncing mindmap")
  /\ resp = Response(200, "data")
  /\ \E i \in DOMAIN tasks : tasks[i].assigned_to = M1 /\ SeqGet(projects, tasks[i].project_id) # NoRow
  /\ \A n \in nodes : n.level # 3


\* C18: when the pass of an on-demand synchronization request fails, the
\* request is answered with an error and not with the success result.
C18_SyncFailureSurfaced ==
  [][\A s \in Sessions :
       (PassFails(s) /\ sess[s].resp = sync_mindmap_result.resp) =>
         resp'.status # 200]_vars


\* row new is row old with exactly the fields of the request written over
MergedRow(old, new, data, columns) ==
  /\ new.id = old.id
  /\ \A f \in DOMAIN columns :
       new[columns[f]] = IF Has(data, f) THEN data[f] ELSE old[columns[f]]

\* row new holds the fields of the request, and the defaults where it has none
InsertedRow(new, data, columns, defaults) ==
  /\ new.id = data.id
  /\ \A f \in DOMAIN columns :
       new[columns[f]] = IF Has(data, f) THEN data[f] ELSE defaults[f]

\* the outcome of an upsert of data on a table whose rows were and are given
UpsertOutcome(before, after, data, columns, required, defaults) ==
  LET hit == {r \in before : r.id = data.id}
      now == {r \in after : r.id = data.id}
  IN IF hit # {}
     THEN /\ Cardinality(after) = Cardinality(before)
          /\ after \ now = before \ hit
          /\ \E new \in now : now = {new} /\ \E o \in hit : MergedRow(o, new, data, columns)
     ELSE required \subseteq DOMAIN data =>
            /\ Cardinality(after) = Cardinality(before) + 1
            /\ after \ now = before
            /\ \E new \in now : now = {new} /\ InsertedRow(new, data, columns, defaults)

\* C19: an upsert of a Project, Task or TeamMember whose id is stored writes
\* exactly the fields of the request over the stored record, keeps every other
\* field and every other record, and adds no record; an upsert whose id is not
\* stored, with the required fields, adds one record with that id, the fields
\* of the request and the defaults (Task priority medium, assignedTo null).
C19_UpsertMerges ==
  [][/\ \A data \in UpsertProjectBodies :
          create_or_update_project(data) =>
            UpsertOutcome(Range(projects), Range(projects'), data, ProjectColumns,
                          ProjectRequired, [tagColor |-> "blue", description |-> ""])
     /\ \A data \in UpsertMemberBodies :
          create_or_update_team_member(data) =>
            UpsertOutcome(team_members, team_members', data, MemberColumns,
                          MemberRequired, <<>>)
     /\ \A data \in UpsertTaskBodies :
          create_or_update_task(data) =>
            /\ Len(tasks') = Cardinality(Range(tasks'))
            /\ UpsertOutcome(Range(tasks), Range(tasks'), data, TaskColumns,
                             TaskRequired, [priority |-> "medium", assignedTo |-> None])]_vars

\* the stored task, project and member each carry a field from a later request
\* next to fields from the request that created them
C19_Witness ==
  /\ \E i \in DOMAIN tasks :
       /\ tasks[i].priority = TaskChanges.priority
       /\ tasks[i].title = TaskValues.title
       /\ tasks[i].assigned_to = TaskValues.assignedTo
  /\ \E i \in DOMAIN projects :
       /\ projects[i].description = ProjectChanges.description
       /\ projects[i].name = ProjectValues.name
  /\ \E m \in team_members : m.role = MemberChanges.role /\ m.name = MemberValues.name


\* C20: a create-task request for an id that is not stored, without projectId
\* or without deadline, is answered with status 400, adds no Task and leaves
\* the graph as it was.
C20_MissingFieldIs400 ==
  [][\A data \in UpsertTaskBodies :
       (/\ SeqGet(tasks, data.id) = NoRow
        /\ ~({"projectId", "deadline"} \subseteq DOMAIN data)
        /\ create_or_update_task(data)) =>
         /\ resp'.status = 400
         /\ tasks' = tasks
         /\ UNCHANGED graphVars]_vars


\* C21: at no time do two tech-stack generation threads run for the same task
C21_OneGenerationPerTask ==
  \A j, k \in Slots :
    (j # k /\ gen[j] # NoRow /\ gen[k] # NoRow) => gen[j].task_id # gen[k].task_id

\* a step of a running generation thread
ThreadStep(k) == gen[k] # NoRow /\ gen'[k] # gen[k]

\* C30: a step of a generation thread adds no task, removes none, and changes
\* at most the tech_stack of the task it was started for
C30_ThreadWritesOnlyTechStack ==
  [][\A k \in Slots :
       ThreadStep(k) =>
         /\ Len(tasks') = Len(tasks)
         /\ \A i \in 1..Len(tasks) :
              \/ tasks'[i] = tasks[i]
              \/ /\ tasks[i].id = gen[k].task_id
                 /\ tasks'[i] = [tasks[i] EXCEPT !.tech_stack = TechStackData]]_vars

\* a task unassigned and renamed while its thread ran holds the saved payload
C30_Witness ==
  \E i \in 1..Len(tasks) :
    /\ tasks[i].tech_stack = TechStackData
    /\ tasks[i].assigned_to = None
    /\ tasks[i].title = "Renamed"


\* C22: the nodes a pass has just stored have exactly the ids 0..N-1, also when
\* an assigned member id was skipped; the project nodes have the ids 0..P-1 in
\* enumeration order; every connection goes from a smaller id to a larger id.
C22_DenseOrderedIds ==
  syncStreak >= 1 =>
    /\ {n.id : n \in nodes} = 0..(Cardinality(nodes) - 1)
    /\ \A i \in DOMAIN projects :
         \E n \in nodes :
           /\ n.id = i - 1
           /\ n.level = 0
           /\ n.entity_id = projects[i].id
    /\ \A c \in connections : c.from_node < c.to_node

\* a pass has skipped an assigned member id that names no member and has drawn
\* a member that sorts after it, with its task, in the same project
C22_Witness ==
  /\ syncStreak >= 1
  /\ Len(projects) = NumProjects
  /\ \E t, u \in Range(tasks) :
       /\ t.project_id = u.project_id
       /\ t.assigned_to = MemberNames[1]
       /\ SetGet(team_members, t.assigned_to) = NoRow
       /\ u.assigned_to = MemberNames[2]
       /\ \E n \in nodes : n.level = 3 /\ n.entity_id = u.id


\* C23: the level-0 nodes a pass has just stored are exactly one per project:
\* the project at position i (from 0) of the enumeration has the node at x=150,
\* y=250+450*i with its name as text, entity type 'project' and its id as
\* entity id; with no project the graph is empty.
C23_ProjectNodes ==
  syncStreak >= 1 =>
    /\ \A i \in DOMAIN projects :
         \E n \in nodes :
           /\ {k \in nodes : k.level = 0 /\ k.entity_id = projects[i].id} = {n}
           /\ n.x = 150
           /\ n.y = 250 + 450 * (i - 1)
           /\ n.text = projects[i].name
           /\ n.entity_type = "project"
    /\ \A n \in nodes :
         n.level = 0 => \E i \in DOMAIN projects : n.entity_id = projects[i].id
    /\ projects = <<>> => (nodes = {} /\ connections = {})

\* a pass has drawn every project, one of them with a subtree
C23_Witness ==
  /\ syncStreak >= 1
  /\ Len(projects) = NumProjects
  /\ Cardinality({n \in nodes : n.level = 0}) = NumProjects
  /\ \E n \in nodes : n.level = 3


\* whether the stored graph has a connection from node a to node b
Connected(a, b) == \E c \in connections : c.from_node = a /\ c.to_node = b

\* the member ids assigned in project p, and the position of m among them in
\* ascending order
AssignedIn(p) == {t.assigned_to : t \in {u \in TasksOf(p) : u.assigned_to # None}}
MemberIndex(p, m) ==
  Cardinality({k \in DOMAIN MemberNames :
                 /\ MemberNames[k] \in AssignedIn(p)
                 /\ \E j \in DOMAIN MemberNames : k < j /\ MemberNames[j] = m})

\* C24: in the graph a pass has just stored, each project and each member id
\* assigned in it have exactly one level-2 node under the project's team node,
\* at x=950 and y=150+450*projectIndex+90*memberIndex, with the member's
\* '{name} - {role}' as text.
C24_MemberNodes ==
  syncStreak >= 1 =>
    \A i \in DOMAIN projects :
      \A m \in AssignedIn(projects[i].id) :
        \E team, n \in nodes :
          /\ team.level = 1
          /\ team.entity_id = projects[i].id
          /\ {k \in nodes : /\ k.level = 2
                            /\ k.entity_id = m
                            /\ Connected(team.id, k.id)} = {n}
          /\ n.x = 950
          /\ n.y = 150 + 450 * (i - 1) + 90 * MemberIndex(projects[i].id, m)
          /\ n.text = SetGet(team_members, m).name \o " - " \o SetGet(team_members, m).role

\* the position of the task at index i of the store among the tasks of its
\* project and assignee
TaskIndex(i) ==
  Cardinality({j \in 1..(i - 1) : /\ tasks[j].project_id = tasks[i].project_id
                                  /\ tasks[j].assigned_to = tasks[i].assigned_to})

\* C25: in the graph a pass has just stored, the level-3 nodes are exactly the
\* assigned tasks: each has one node under its assignee's member node, at
\* x=1350 and y = member y + 60*taskIndex - 20, with the title cut to 40
\* characters and '...' when longer; an unassigned task has no node.
C25_TaskNodes ==
  syncStreak >= 1 =>
    /\ \A i \in DOMAIN tasks :
         IF tasks[i].assigned_to # None
         THEN \E n, mn \in nodes :
                /\ {k \in nodes : k.level = 3 /\ k.entity_id = tasks[i].id} = {n}
                /\ mn.level = 2
                /\ mn.entity_id = tasks[i].assigned_to
                /\ Connected(mn.id, n.id)
                /\ n.x = 1350
                /\ n.y = mn.y + 60 * TaskIndex(i) - 20
                /\ n.text = IF Len(tasks[i].title) <= 40
                            THEN tasks[i].title
                            ELSE SubSeq(tasks[i].title, 1, 40) \o "..."
         ELSE \A n \in nodes : n.entity_id # tasks[i].id
    /\ \A n \in nodes :
         n.level = 3 => \E i \in DOMAIN tasks : /\ tasks[i].id = n.entity_id
                                                /\ tasks[i].assigned_to # None

\* C27: in the graph a pass has just stored, every level-1 'Team Members' node
\* has a level-2 member node connected from it.
C27_TeamNodeHasMember ==
  syncStreak >= 1 =>
    \A team \in nodes :
      team.level = 1 =>
        \E n \in nodes : n.level = 2 /\ Connected(team.id, n.id)


\* the store row of the advisor's entry d, and its position in the store
RowOf(d) == CHOOSE i \in DOMAIN tasks : tasks[i].id = d.id

\* C26: the advisor's task list holds the project's unassigned tasks, ordered
\* by priority score descending (high=3, medium=2, low=1), then by deadline
\* ascending as strings, then by their order in the store.
C26_AdvisorOrder ==
  LET score == [p \in {"high", "medium", "low"} |->
                  IF p = "high" THEN 3 ELSE IF p = "medium" THEN 2 ELSE 1]
  IN task_data # <<>> =>
       /\ {task_data[i].id : i \in DOMAIN task_data} = {t.id : t \in UnassignedOf(P1)}
       /\ Len(task_data) = Cardinality(UnassignedOf(P1))
       /\ \A i, j \in DOMAIN task_data :
            LET a == tasks[RowOf(task_data[i])]
                b == tasks[RowOf(task_data[j])]
            IN (i < j /\ {a.priority, b.priority} \subseteq DOMAIN score) =>
                 \/ score[a.priority] > score[b.priority]
                 \/ /\ score[a.priority] = score[b.priority]
                    /\ StrLess(a.deadline, b.deadline)
                 \/ /\ score[a.priority] = score[b.priority]
                    /\ a.deadline = b.deadline
                    /\ RowOf(task_data[i]) < RowOf(task_data[j])

\* the advisor has put a high task behind 'Nov 10' before an earlier stored
\* high task due 'Nov 9', and a later stored medium task with 'Dec 01' last
C26_Witness ==
  /\ Len(task_data) = 3
  /\ task_data[1].priority = "high" /\ task_data[1].deadline = "Nov 10"
  /\ task_data[2].priority = "high" /\ task_data[2].deadline = "Nov 9"
  /\ task_data[3].priority = "medium" /\ task_data[3].deadline = "Dec 01"
  /\ RowOf(task_data[2]) < RowOf(task_data[1])
  /\ RowOf(task_data[3]) < RowOf(task_data[1])


\* C29: in every reachable state the from node and the to node of every
\* connection are stored nodes.
C29_ConnectionsReferenceNodes ==
  \A c \in connections :
    /\ \E n \in nodes : n.id = c.from_node
    /\ \E n \in nodes : n.id = c.to_node


\* C28: no two distinct nodes of the stored graph have the same (x, y) position.
C28_NoTwoNodesCoincide ==
  \A a, b \in nodes : a.id # b.id => (a.x # b.x \/ a.y # b.y)

====
